---- MODULE Spec2Model ----
(***************************************************************************)
(* A model of the interactive portfolio tracker of src/src/main.rs: the    *)
(* command loop of main, the handlers it dispatches to, the JSON           *)
(* persistence of the portfolio and the price lookup.                      *)
(*                                                                         *)
(* Representation.                                                         *)
(*   Option<T>   a sequence of length at most one: None is <<>>, Some(x)   *)
(*               is <<x>>.                                                 *)
(*   u32 field   a natural number.  The values the model enumerates stay   *)
(*               below 2^31.                                               *)
(*   u32 total   the accumulators of print_summary are kept as two 16-bit  *)
(*               limbs [lo, hi], so that products and sums wrap or         *)
(*               overflow at 2^32 exactly as the machine type does.        *)
(*   typed text  a sequence of one-character strings.                      *)
(*   file        a sequence of JSON tokens.                                *)
(*   f64 quote   an integer number of thousandths of the major unit.       *)
(***************************************************************************)
EXTENDS Integers, Sequences, FiniteSets, TLC

VARIABLES
    active_portfolio,   \* main: active_portfolio.assets
    fs,                 \* the files std::fs reads and writes, by name
    pc,                 \* where the process is: awaiting / exited / eof / panicked
    out,                \* what the last command wrote to the output stream
    last,               \* the last command, the inputs it consumed, the portfolio before it
    dumped,             \* by file name: the portfolio whose dump the file holds, if any
    ncmd                \* number of command lines read so far

vars == <<active_portfolio, fs, pc, out, last, dumped, ncmd>>

(***************************************************************************)
(* Bounds of the exploration.                                              *)
(***************************************************************************)
\* command lines read in one run
MaxCmds == 3
\* length of the portfolios the persistence and summary specifications start from
MaxInitAssets == 2

(***************************************************************************)
(* Option<T>                                                               *)
(***************************************************************************)
None == <<>>
Some(x) == <<x>>
IsSome(o) == Len(o) > 0
IsNone(o) == Len(o) = 0
Unwrap(o) == o[1]

(***************************************************************************)
(* struct Asset and its predicates                                         *)
(***************************************************************************)
Asset(t, b, c, s, q) ==
    [ticker |-> t, buy_price_cents |-> b, current_price_cents |-> c,
     sell_price_cents |-> s, quantity |-> q]

is_asset_sold(asset) == IsSome(asset.sell_price_cents)

is_asset_held(asset) == ~is_asset_sold(asset)

(***************************************************************************)
(* u32 arithmetic on 16-bit limbs.  Every operation returns the wrapped    *)
(* value and whether the exact result left the range of u32.               *)
(***************************************************************************)
Limb == 65536
Byte == 256

ToU32(n) == [lo |-> n % Limb, hi |-> n \div Limb]

U32Zero == [lo |-> 0, hi |-> 0]

\* the exact product of two limbs, as a low and a high limb: p0 is the
\* product with the low byte of x, p1 the product with its high byte
JoinBytes(p0, p1, lo_sum) ==
    [lo |-> lo_sum % Limb,
     hi |-> (p0 \div Limb) + (p1 \div Byte) + (lo_sum \div Limb)]

MulBytes(p0, p1) == JoinBytes(p0, p1, (p0 % Limb) + (p1 % Byte) * Byte)

MulLimb(x, y) == MulBytes((x % Byte) * y, (x \div Byte) * y)

\* carry propagation over four columns, lowest first
Carry4(c1, c2, c3, c4) ==
    << c1 % Limb,
       (c2 + c1 \div Limb) % Limb,
       (c3 + (c2 + c1 \div Limb) \div Limb) % Limb,
       c4 + (c3 + (c2 + c1 \div Limb) \div Limb) \div Limb >>

SumColumns(ll, lh, hl, hh) ==
    Carry4(ll.lo, ll.hi + lh.lo + hl.lo, lh.hi + hl.hi + hh.lo, hh.hi)

\* the exact 64-bit product of two u32 values, as four limbs
MulWide(a, b) ==
    SumColumns(MulLimb(a.lo, b.lo), MulLimb(a.lo, b.hi),
               MulLimb(a.hi, b.lo), MulLimb(a.hi, b.hi))

Wrapped(w) == [val |-> [lo |-> w[1], hi |-> w[2]], overflow |-> (w[3] # 0 \/ w[4] # 0)]

u32_mul(a, b) == Wrapped(MulWide(a, b))

AddLimbs(lo, hi) ==
    [val |-> [lo |-> lo % Limb, hi |-> (hi + lo \div Limb) % Limb],
     overflow |-> (hi + lo \div Limb >= Limb)]

u32_add(a, b) == AddLimbs(a.lo + b.lo, a.hi + b.hi)

SubLimbs(lo, hi) ==
    [val |-> [lo |-> IF lo < 0 THEN lo + Limb ELSE lo,
              hi |-> IF lo < 0
                     THEN (IF hi - 1 < 0 THEN hi - 1 + Limb ELSE hi - 1)
                     ELSE (IF hi < 0 THEN hi + Limb ELSE hi)],
     overflow |-> IF lo < 0 THEN hi - 1 < 0 ELSE hi < 0]

\* u32_sub as saturating_sub would compute it: 0 where the difference is negative
u32_sub_saturating(a, b) ==
    IF SubLimbs(a.lo - b.lo, a.hi - b.hi).overflow
    THEN [val |-> U32Zero, overflow |-> FALSE]
    ELSE SubLimbs(a.lo - b.lo, a.hi - b.hi)

u32_sub(a, b) == SubLimbs(a.lo - b.lo, a.hi - b.hi)

(***************************************************************************)
(* print_summary: the totals over the held assets.  `checks` is the build  *)
(* profile: with overflow checks (a debug build) an operation that leaves  *)
(* u32 panics, without them (a release build) it wraps.                    *)
(***************************************************************************)
\* one held asset added to the totals: bq and cq are the two products
add_held(acc, bq, cq, nb, mv, checks) ==
    [net_buy_price |-> nb.val,
     market_value |-> mv.val,
     panic |-> checks /\ (bq.overflow \/ nb.overflow \/ cq.overflow \/ mv.overflow)]

add_products(acc, bq, cq, checks) ==
    add_held(acc, bq, cq, u32_add(acc.net_buy_price, bq.val),
             u32_add(acc.market_value, cq.val), checks)

summary_step(acc, asset, checks) ==
    IF IsSome(asset.sell_price_cents) THEN acc
    ELSE add_products(acc,
             u32_mul(ToU32(asset.buy_price_cents), ToU32(asset.quantity)),
             u32_mul(ToU32(asset.current_price_cents), ToU32(asset.quantity)),
             checks)

RECURSIVE summary_loop(_, _, _, _)
summary_loop(assets, i, acc, checks) ==
    IF i > Len(assets) \/ acc.panic THEN acc
    ELSE summary_loop(assets, i + 1, summary_step(acc, assets[i], checks), checks)

summary_row(acc, diff, checks) ==
    [panic |-> acc.panic \/ (checks /\ diff.overflow),
     net_buy_price |-> acc.net_buy_price,
     market_value |-> acc.market_value,
     unrealized_gains_losses |-> diff.val]

subtract(acc, checks) ==
    summary_row(acc, u32_sub(acc.net_buy_price, acc.market_value), checks)

print_summary(assets, checks) ==
    subtract(summary_loop(assets, 1,
                 [net_buy_price |-> U32Zero, market_value |-> U32Zero, panic |-> FALSE],
                 checks),
             checks)

(***************************************************************************)
(* The price lookup.  One call of the quote service ends in one of:        *)
(*   err      get_latest_quotes returned Err (unknown ticker, transport)   *)
(*   noquote  it returned Ok with a response that holds no quote           *)
(*   quote    it returned Ok and the last quote closes at millis / 1000    *)
(***************************************************************************)
LookupErr == [k |-> "err", millis |-> 0]
LookupNoQuote == [k |-> "noquote", millis |-> 0]
LookupQuote(m) == [k |-> "quote", millis |-> m]

\* (close * 100.0) as u32: the cast drops the fraction and saturates at 0
CentsOf(millis) == IF millis < 0 THEN 0 ELSE (millis * 100) \div 1000

\* status "some" carries the price, "none" is the failure value, "panic" is
\* the unwrap of a response without a quote
get_current_ticker_price(outcome) ==
    IF outcome.k = "quote" THEN [status |-> "some", val |-> CentsOf(outcome.millis)]
    ELSE IF outcome.k = "noquote" THEN [status |-> "panic", val |-> 0]
    ELSE [status |-> "none", val |-> 0]

(***************************************************************************)
(* Typed text and its conversion to u32 (str::parse::<u32>, which read!()  *)
(* of a u32 also uses): an optional '+', then one or more decimal digits,  *)
(* the value within u32.                                                   *)
(***************************************************************************)
DigitVal ==
    [c \in {"0", "1", "2", "3", "4", "5", "6", "7", "8", "9"} |->
        CASE c = "0" -> 0 [] c = "1" -> 1 [] c = "2" -> 2 [] c = "3" -> 3
          [] c = "4" -> 4 [] c = "5" -> 5 [] c = "6" -> 6 [] c = "7" -> 7
          [] c = "8" -> 8 [] c = "9" -> 9]

IsDigit(c) == c \in DOMAIN DigitVal

FromU32(v) == v.hi * Limb + v.lo

\* one more digit: m is ten times the value so far, a is m plus the digit
push_digit(m, a) == IF m.overflow \/ a.overflow THEN None ELSE Some(a.val)

add_digit(m, d) == push_digit(m, u32_add(m.val, ToU32(d)))

\* acc is the Option of the value so far: None once the text is rejected
RECURSIVE parse_digits(_, _, _)
parse_digits(text, i, acc) ==
    IF i > Len(text) \/ IsNone(acc) THEN acc
    ELSE IF ~IsDigit(text[i]) THEN None
    ELSE parse_digits(text, i + 1,
             add_digit(u32_mul(Unwrap(acc), ToU32(10)), DigitVal[text[i]]))

to_field(acc) == IF IsNone(acc) THEN None ELSE Some(FromU32(Unwrap(acc)))

strip_plus(text) == IF Len(text) > 0 /\ text[1] = "+" THEN Tail(text) ELSE text

parse_decimal(digits) ==
    IF Len(digits) = 0 THEN None ELSE to_field(parse_digits(digits, 1, Some(U32Zero)))

parse_u32(text) == parse_decimal(strip_plus(text))

Held == <<"h", "e", "l", "d">>

\* add_asset with the buy price and the quantity in each other's field
add_asset_swapped(symbol, buy_raw, sell_raw, qty_raw, outcome) ==
    IF IsNone(parse_u32(buy_raw))
    THEN [status |-> "panic", stage |-> "buy", asset |-> Asset("", 0, 0, None, 0)]
    ELSE IF IsNone(parse_u32(qty_raw))
    THEN [status |-> "panic", stage |-> "quantity", asset |-> Asset("", 0, 0, None, 0)]
    ELSE IF get_current_ticker_price(outcome).status = "panic"
    THEN [status |-> "panic", stage |-> "lookup", asset |-> Asset("", 0, 0, None, 0)]
    ELSE IF get_current_ticker_price(outcome).status = "none"
    THEN [status |-> "none", stage |-> "lookup", asset |-> Asset("", 0, 0, None, 0)]
    ELSE IF sell_raw # Held /\ IsNone(parse_u32(sell_raw))
    THEN [status |-> "panic", stage |-> "sell", asset |-> Asset("", 0, 0, None, 0)]
    ELSE [status |-> "some", stage |-> "done",
          asset |-> Asset(symbol, Unwrap(parse_u32(qty_raw)),
                          get_current_ticker_price(outcome).val,
                          IF sell_raw = Held THEN None ELSE Some(Unwrap(parse_u32(sell_raw))),
                          Unwrap(parse_u32(buy_raw)))]

(***************************************************************************)
(* add_asset: the four reads, the lookup, and the construction of the      *)
(* asset inside current_price.map.  `stage` says how far it got.           *)
(***************************************************************************)
add_asset(symbol, buy_raw, sell_raw, qty_raw, outcome) ==
    LET buy_price == parse_u32(buy_raw)
        n == parse_u32(qty_raw)
        current_price == get_current_ticker_price(outcome)
        sell == parse_u32(sell_raw)
        nothing == Asset("", 0, 0, None, 0)
    IN  IF IsNone(buy_price) THEN [status |-> "panic", stage |-> "buy", asset |-> nothing]
        ELSE IF IsNone(n) THEN [status |-> "panic", stage |-> "quantity", asset |-> nothing]
        ELSE IF current_price.status = "panic"
             THEN [status |-> "panic", stage |-> "lookup", asset |-> nothing]
        ELSE IF current_price.status = "none"
             THEN [status |-> "none", stage |-> "lookup", asset |-> nothing]
        ELSE IF sell_raw # Held /\ IsNone(sell)
             THEN [status |-> "panic", stage |-> "sell", asset |-> nothing]
        ELSE [status |-> "some", stage |-> "done",
              asset |-> Asset(symbol, Unwrap(buy_price), current_price.val,
                              IF sell_raw = Held THEN None ELSE Some(Unwrap(sell)),
                              Unwrap(n))]

(***************************************************************************)
(* JSON text as tokens.  k is the kind of the token: one of the            *)
(* punctuation marks, "null", "true", "str" (s is the string) or "num"     *)
(* (n is the number).                                                      *)
(***************************************************************************)
Punct(c) == [k |-> c, s |-> "", n |-> 0]
Str(x) == [k |-> "str", s |-> x, n |-> 0]
Num(x) == [k |-> "num", s |-> "", n |-> x]
EndOfText == [k |-> "eof", s |-> "", n |-> 0]

Tok(toks, i) == IF i >= 1 /\ i <= Len(toks) THEN toks[i] ELSE EndOfText

(***************************************************************************)
(* serde_json::to_string of the derived Serialize: the fields in the order *)
(* of their declaration, None written as null.                             *)
(***************************************************************************)
\* ser_option_u32 with None written as the number 0
ser_option_u32_zero(o) == IF IsSome(o) THEN Num(Unwrap(o)) ELSE Num(0)

ser_option_u32(o) == IF IsSome(o) THEN Num(Unwrap(o)) ELSE Punct("null")

ser_asset(a) ==
    << Punct("{"),
       Str("ticker"), Punct(":"), Str(a.ticker), Punct(","),
       Str("buy_price_cents"), Punct(":"), Num(a.buy_price_cents), Punct(","),
       Str("current_price_cents"), Punct(":"), Num(a.current_price_cents), Punct(","),
       Str("sell_price_cents"), Punct(":"), ser_option_u32(a.sell_price_cents), Punct(","),
       Str("quantity"), Punct(":"), Num(a.quantity),
       Punct("}") >>

RECURSIVE ser_assets(_, _)
ser_assets(assets, i) ==
    IF i > Len(assets) THEN <<>>
    ELSE (IF i > 1 THEN <<Punct(",")>> ELSE <<>>) \o ser_asset(assets[i])
         \o ser_assets(assets, i + 1)

to_string(assets) ==
    << Punct("{"), Str("assets"), Punct(":"), Punct("[") >>
    \o ser_assets(assets, 1)
    \o << Punct("]"), Punct("}") >>

(***************************************************************************)
(* serde_json::from_str, first half: the text is read as one JSON value,   *)
(* and nothing but the end of the text may follow it.  A value is          *)
(* [t, s, n, items]: t is "null", "true", "str", "num", "arr" (items are   *)
(* the elements) or "obj" (items are the members [key, val], in the order  *)
(* of the text, a repeated key kept).  The reader is a pushdown automaton  *)
(* that takes one token per step; `stack` holds the arrays and objects     *)
(* still open, `mode` what may come next.                                  *)
(***************************************************************************)
Scalar(t) == [t |-> t.k, s |-> t.s, n |-> t.n, items |-> <<>>]
Frame(t) == [t |-> t, s |-> "", n |-> 0, items |-> <<>>, key |-> ""]
Closed(frame) == [t |-> frame.t, s |-> "", n |-> 0, items |-> frame.items]

Rejected == [mode |-> "error", stack |-> <<>>, value |-> <<>>]

\* a value is complete: it is the whole text, or an element or member of
\* the innermost open container
complete(stack, v) ==
    IF Len(stack) = 0 THEN [mode |-> "done", stack |-> stack, value |-> Some(v)]
    ELSE [mode |-> "next",
          stack |-> [stack EXCEPT ![Len(stack)].items =
                        Append(@, IF stack[Len(stack)].t = "obj"
                                  THEN [key |-> stack[Len(stack)].key, val |-> v]
                                  ELSE v)],
          value |-> None]

begin_value(stack, t) ==
    IF t.k \in {"str", "num", "null", "true"} THEN complete(stack, Scalar(t))
    ELSE IF t.k = "[" THEN [mode |-> "first", stack |-> Append(stack, Frame("arr")),
                            value |-> None]
    ELSE IF t.k = "{" THEN [mode |-> "first_key", stack |-> Append(stack, Frame("obj")),
                            value |-> None]
    ELSE Rejected

close(stack, t) ==
    IF Len(stack) > 0 /\ ((t.k = "]" /\ stack[Len(stack)].t = "arr")
                          \/ (t.k = "}" /\ stack[Len(stack)].t = "obj"))
    THEN complete(SubSeq(stack, 1, Len(stack) - 1), Closed(stack[Len(stack)]))
    ELSE Rejected

take_key(stack, t) ==
    IF t.k = "str"
    THEN [mode |-> "colon", stack |-> [stack EXCEPT ![Len(stack)].key = t.s], value |-> None]
    ELSE Rejected

after_value(st, t) ==
    IF t.k = "," THEN [st EXCEPT !.mode = IF st.stack[Len(st.stack)].t = "obj"
                                          THEN "key" ELSE "value"]
    ELSE close(st.stack, t)

step(st, t) ==
    CASE st.mode = "value" -> begin_value(st.stack, t)
      [] st.mode = "first" -> IF t.k = "]" THEN close(st.stack, t)
                              ELSE begin_value(st.stack, t)
      [] st.mode = "first_key" -> IF t.k = "}" THEN close(st.stack, t)
                                  ELSE take_key(st.stack, t)
      [] st.mode = "key" -> take_key(st.stack, t)
      [] st.mode = "colon" -> IF t.k = ":" THEN [st EXCEPT !.mode = "value"] ELSE Rejected
      [] st.mode = "next" -> after_value(st, t)
      [] st.mode = "done" -> IF t.k = "eof" THEN [st EXCEPT !.mode = "accept"] ELSE Rejected
      [] OTHER -> Rejected

RECURSIVE read_json(_, _, _)
read_json(toks, i, st) ==
    IF st.mode \in {"accept", "error"} THEN st
    ELSE read_json(toks, i + 1, step(st, Tok(toks, i)))

\* Some(value) or None for a syntax error
parse_json(toks) ==
    read_json(toks, 1, [mode |-> "value", stack |-> <<>>, value |-> None]).value

(***************************************************************************)
(* serde_json::from_str, second half: the derived Deserialize of Portfolio *)
(* and Asset.  A struct is read from an object (members in any order, an   *)
(* unknown member ignored, a member given twice or a missing member an     *)
(* error, except that a missing Option member is None) or from an array    *)
(* of its fields in the order of their declaration.                        *)
(***************************************************************************)
de_string(v) == IF v.t = "str" THEN Some(v.s) ELSE None

de_u32(v) == IF v.t = "num" /\ v.n >= 0 THEN Some(v.n) ELSE None

\* Option<u32>: Some(None) for null, Some(Some(n)) for a number
de_option_u32(v) ==
    IF v.t = "null" THEN Some(None)
    ELSE IF v.t = "num" /\ v.n >= 0 THEN Some(Some(v.n))
    ELSE None

\* the positions of the members called name
Members(v, name) == {i \in 1..Len(v.items) : v.items[i].key = name}

Member(v, name) == v.items[CHOOSE i \in Members(v, name) : TRUE].val

Required == {"ticker", "buy_price_cents", "current_price_cents", "quantity"}
AssetFields == Required \cup {"sell_price_cents"}

make_asset(t, b, c, s, q) ==
    IF IsNone(t) \/ IsNone(b) \/ IsNone(c) \/ IsNone(s) \/ IsNone(q) THEN None
    ELSE Some(Asset(Unwrap(t), Unwrap(b), Unwrap(c), Unwrap(s), Unwrap(q)))

de_asset_map(v) ==
    IF \/ \E f \in AssetFields : Cardinality(Members(v, f)) > 1
       \/ \E f \in Required : Members(v, f) = {}
    THEN None
    ELSE make_asset(de_string(Member(v, "ticker")),
                    de_u32(Member(v, "buy_price_cents")),
                    de_u32(Member(v, "current_price_cents")),
                    IF Members(v, "sell_price_cents") = {} THEN Some(None)
                    ELSE de_option_u32(Member(v, "sell_price_cents")),
                    de_u32(Member(v, "quantity")))

de_asset_seq(v) ==
    IF Len(v.items) # 5 THEN None
    ELSE make_asset(de_string(v.items[1]), de_u32(v.items[2]), de_u32(v.items[3]),
                    de_option_u32(v.items[4]), de_u32(v.items[5]))

de_asset(v) ==
    IF v.t = "obj" THEN de_asset_map(v)
    ELSE IF v.t = "arr" THEN de_asset_seq(v)
    ELSE None

de_assets(v) ==
    IF v.t = "arr" /\ \A i \in 1..Len(v.items) : IsSome(de_asset(v.items[i]))
    THEN Some([i \in 1..Len(v.items) |-> Unwrap(de_asset(v.items[i]))])
    ELSE None

de_portfolio(v) ==
    IF v.t = "obj"
    THEN IF Cardinality(Members(v, "assets")) = 1 THEN de_assets(Member(v, "assets"))
         ELSE None
    ELSE IF v.t = "arr" /\ Len(v.items) = 1 THEN de_assets(v.items[1])
    ELSE None

\* Some(the assets of the portfolio) or None for Err
from_str(toks) ==
    IF IsNone(parse_json(toks)) THEN None ELSE de_portfolio(Unwrap(parse_json(toks)))

(***************************************************************************)
(* The file system as std::fs sees it: a name holds no file, a text file,  *)
(* a file that is not UTF-8 text, or a directory.                          *)
(***************************************************************************)
NoFile == [kind |-> "absent", data |-> <<>>]
Directory == [kind |-> "dir", data |-> <<>>]
BinaryFile == [kind |-> "binary", data |-> <<>>]
TextFile(toks) == [kind |-> "file", data |-> toks]

FileNames == {"p.json", "ext.json", "dir"}

\* fs::read_to_string: Some(text) or None for Err
read_to_string(files, filename) ==
    IF files[filename].kind = "file" THEN Some(files[filename].data) ELSE None

\* fs::write: Some(the files afterwards) or None for Err
write(files, filename, text) ==
    IF files[filename].kind = "dir" THEN None
    ELSE Some([files EXCEPT ![filename] = TextFile(text)])

\* load_portfolio with a text that does not parse taken for the default portfolio
load_portfolio_default(files, filename) ==
    IF IsNone(read_to_string(files, filename)) THEN None
    ELSE IF IsNone(from_str(Unwrap(read_to_string(files, filename)))) THEN Some(<<>>)
    ELSE from_str(Unwrap(read_to_string(files, filename)))

load_portfolio(files, filename) ==
    LET data == read_to_string(files, filename) IN
    IF IsNone(data) THEN None ELSE from_str(Unwrap(data))

(***************************************************************************)
(* Lines on the output stream.                                             *)
(***************************************************************************)
Line(text) == [msg |-> text, ticker |-> "", cells |-> <<>>]
Table(name, rows) == [msg |-> name, ticker |-> "", cells |-> rows]

MsgFetchFailed == Line("An error occurred when fetching stock price. Ensure ticker is correct.")
MsgNotLoaded == Line("An error occurred when loading portfolio. Portfolio not loaded.")
MsgNotDumped == Line("Error occurred when dumping. Portfolio not dumped.")
MsgUnknown == Line("Unknown command. Enter 'help' for a list of valid commands")
MsgRefreshFailed(t) ==
    [msg |-> "Error when fetching current price for ticker {}.", ticker |-> t, cells |-> <<>>]

help_text ==
    << "assets - prints all assets, both held and sold",
       "summary - prints a summary of the loaded portfolio",
       "new - adds a new asset",
       "help - prints this help text",
       "load - loads assets from a file",
       "dump - saves assets to a file",
       "refresh - updates the current price of all assets",
       "exit - exits the program" >>

\* the change from old to new in percent, as the fraction num / den
percent_increase(old, new) == [num |-> (new - old) * 100, den |-> old]

\* asset_row with the sell price unwrapped for the percent change of every
\* asset, held or sold
asset_row_by_sell_price(asset) ==
    [ticker |-> asset.ticker,
     buy_price |-> asset.buy_price_cents,
     current_price |-> IF is_asset_held(asset) THEN Some(asset.current_price_cents) ELSE None,
     percent_change |-> IF IsSome(asset.sell_price_cents)
                        THEN percent_increase(asset.buy_price_cents,
                                              Unwrap(asset.sell_price_cents))
                        ELSE percent_increase(asset.buy_price_cents, 0),
     sell_price |-> IF is_asset_sold(asset) THEN asset.sell_price_cents ELSE None,
     quantity |-> asset.quantity,
     panic |-> IsNone(asset.sell_price_cents)]

\* one row of print_assets; an absent current or sell price is shown as N/A.
\* unwrapped lists the options the row calls unwrap() on: a None among them
\* is a panic
asset_row(asset) ==
    LET unwrapped == (IF is_asset_held(asset) THEN <<>> ELSE << asset.sell_price_cents >>)
                     \o (IF is_asset_sold(asset) THEN << asset.sell_price_cents >> ELSE <<>>)
    IN  [ticker |-> asset.ticker,
         buy_price |-> asset.buy_price_cents,
         current_price |-> IF is_asset_held(asset) THEN Some(asset.current_price_cents) ELSE None,
         percent_change |-> percent_increase(asset.buy_price_cents,
                                IF is_asset_held(asset) THEN asset.current_price_cents
                                ELSE Unwrap(asset.sell_price_cents)),
         sell_price |-> IF is_asset_sold(asset) THEN Some(Unwrap(asset.sell_price_cents)) ELSE None,
         quantity |-> asset.quantity,
         panic |-> \E i \in 1..Len(unwrapped) : IsNone(unwrapped[i])]

print_assets(assets) == [i \in 1..Len(assets) |-> asset_row(assets[i])]

(***************************************************************************)
(* The inputs the model enumerates.                                        *)
(***************************************************************************)
Tickers == {"A", "B"}
BuyTexts == { <<"1", "0", "0">>, <<"a", "b", "c">> }
SellTexts == { Held, <<"4", "0", "0", "0">>, <<"a", "b", "c">> }
QtyTexts == { <<"2">>, <<"-", "1">> }
QuoteMillis == {1239, 500}
LookupOutcomes == {LookupErr, LookupNoQuote} \cup {LookupQuote(m) : m \in QuoteMillis}
UnknownLines == {"foo", "Assets"}

(***************************************************************************)
(* The command loop of main.  Every action is one iteration: a line from   *)
(* prompt, the handler it selects, and the return to the prompt.           *)
(***************************************************************************)
Awaiting == pc = "awaiting" /\ ncmd < MaxCmds

\* what `last` records of an iteration that read no further input
Ran(input) ==
    [input |-> input, before |-> active_portfolio, symbol |-> "",
     buy_raw |-> <<>>, sell_raw |-> <<>>, qty_raw |-> <<>>,
     lookups |-> <<>>, filename |-> ""]

Looked(t, outcome) == [ticker |-> t, outcome |-> outcome]

\* prompt("» ") meets the end of the input: std::process::exit(3)
PromptEof ==
    /\ Awaiting
    /\ pc' = "eof"
    /\ out' = <<>>
    /\ last' = Ran("<eof>")
    /\ ncmd' = ncmd + 1
    /\ UNCHANGED <<active_portfolio, fs, dumped>>

AssetsCmd ==
    /\ Awaiting
    /\ LET rows == print_assets(active_portfolio) IN
       IF \E i \in 1..Len(rows) : rows[i].panic
       THEN pc' = "panicked" /\ out' = <<>>
       ELSE pc' = pc /\ out' = << Table("assets", rows) >>
    /\ last' = Ran("assets")
    /\ ncmd' = ncmd + 1
    /\ UNCHANGED <<active_portfolio, fs, dumped>>

SummaryCmd ==
    /\ Awaiting
    /\ \E checks \in BOOLEAN :
         LET r == print_summary(active_portfolio, checks) IN
         IF r.panic
         THEN pc' = "panicked" /\ out' = <<>>
         ELSE /\ pc' = pc
              /\ out' = << Table("summary", << r.net_buy_price, r.market_value,
                                               r.unrealized_gains_losses >>) >>
    /\ last' = Ran("summary")
    /\ ncmd' = ncmd + 1
    /\ UNCHANGED <<active_portfolio, fs, dumped>>

NewCmd ==
    /\ Awaiting
    /\ \E symbol \in Tickers, buy_raw \in BuyTexts, sell_raw \in SellTexts,
          qty_raw \in QtyTexts, outcome \in LookupOutcomes :
         LET new_asset == add_asset(symbol, buy_raw, sell_raw, qty_raw, outcome)
             read_all == new_asset.stage # "buy"
             looked == new_asset.stage \notin {"buy", "quantity"}
         IN  /\ last' = [Ran("new") EXCEPT
                            !.symbol = symbol,
                            !.buy_raw = buy_raw,
                            !.sell_raw = IF read_all THEN sell_raw ELSE <<>>,
                            !.qty_raw = IF read_all THEN qty_raw ELSE <<>>,
                            !.lookups = IF looked THEN <<Looked(symbol, outcome)>> ELSE <<>>]
             /\ IF new_asset.status = "panic"
                THEN pc' = "panicked" /\ out' = <<>> /\ UNCHANGED active_portfolio
                ELSE IF new_asset.status = "some"
                THEN /\ active_portfolio' = Append(active_portfolio, new_asset.asset)
                     /\ out' = <<>>
                     /\ pc' = pc
                ELSE /\ out' = << MsgFetchFailed >>
                     /\ pc' = pc
                     /\ UNCHANGED active_portfolio
    /\ ncmd' = ncmd + 1
    /\ UNCHANGED <<fs, dumped>>

HelpCmd ==
    /\ Awaiting
    /\ out' = << Table("help", help_text) >>
    /\ last' = Ran("help")
    /\ ncmd' = ncmd + 1
    /\ UNCHANGED <<active_portfolio, fs, pc, dumped>>

\* LoadCmd with the loaded assets added to the portfolio instead of replacing it
LoadCmdExtend ==
    /\ Awaiting
    /\ \/ \E filename \in FileNames :
            LET loaded == load_portfolio(fs, filename) IN
            /\ last' = [Ran("load") EXCEPT !.filename = filename]
            /\ IF IsNone(loaded)
               THEN out' = << MsgNotLoaded >> /\ UNCHANGED active_portfolio
               ELSE out' = <<>> /\ active_portfolio' = active_portfolio \o Unwrap(loaded)
            /\ pc' = pc
       \/ /\ last' = Ran("load")
          /\ pc' = "eof"
          /\ out' = <<>>
          /\ UNCHANGED active_portfolio
    /\ ncmd' = ncmd + 1
    /\ UNCHANGED <<fs, dumped>>

LoadCmd ==
    /\ Awaiting
    /\ \/ \E filename \in FileNames :
            LET loaded == load_portfolio(fs, filename) IN
            /\ last' = [Ran("load") EXCEPT !.filename = filename]
            /\ IF IsNone(loaded)
               THEN out' = << MsgNotLoaded >> /\ UNCHANGED active_portfolio
               ELSE out' = <<>> /\ active_portfolio' = Unwrap(loaded)
            /\ pc' = pc
       \/ \* the prompt for the file name meets the end of the input
          /\ last' = Ran("load")
          /\ pc' = "eof"
          /\ out' = <<>>
          /\ UNCHANGED active_portfolio
    /\ ncmd' = ncmd + 1
    /\ UNCHANGED <<fs, dumped>>

\* DumpCmd that takes the assets out of the portfolio to serialize them
DumpCmdTake ==
    /\ Awaiting
    /\ LET json == to_string(active_portfolio) IN
       \/ \E filename \in FileNames :
            LET result == write(fs, filename, json) IN
            /\ last' = [Ran("dump") EXCEPT !.filename = filename]
            /\ IF IsNone(result)
               THEN out' = << MsgNotDumped >> /\ UNCHANGED <<fs, dumped>>
               ELSE /\ out' = <<>>
                    /\ fs' = Unwrap(result)
                    /\ dumped' = [dumped EXCEPT ![filename] = Some(active_portfolio)]
            /\ pc' = pc
       \/ /\ last' = Ran("dump")
          /\ pc' = "eof"
          /\ out' = <<>>
          /\ UNCHANGED <<fs, dumped>>
    /\ ncmd' = ncmd + 1
    /\ active_portfolio' = <<>>

\* to_string of a Portfolio has no failing case, so only the write can fail
DumpCmd ==
    /\ Awaiting
    /\ LET json == to_string(active_portfolio) IN
       \/ \E filename \in FileNames :
            LET result == write(fs, filename, json) IN
            /\ last' = [Ran("dump") EXCEPT !.filename = filename]
            /\ IF IsNone(result)
               THEN out' = << MsgNotDumped >> /\ UNCHANGED <<fs, dumped>>
               ELSE /\ out' = <<>>
                    /\ fs' = Unwrap(result)
                    /\ dumped' = [dumped EXCEPT ![filename] = Some(active_portfolio)]
            /\ pc' = pc
       \/ \* the prompt for the file name meets the end of the input
          /\ last' = Ran("dump")
          /\ pc' = "eof"
          /\ out' = <<>>
          /\ UNCHANGED <<fs, dumped>>
    /\ ncmd' = ncmd + 1
    /\ UNCHANGED active_portfolio

ExitCmd ==
    /\ Awaiting
    /\ pc' = "exited"
    /\ out' = <<>>
    /\ last' = Ran("exit")
    /\ ncmd' = ncmd + 1
    /\ UNCHANGED <<active_portfolio, fs, dumped>>

\* the loop over the assets; acc is [assets, printed, lookups, panic]
RECURSIVE refresh_loop(_, _, _)
refresh_loop(i, outcomes, acc) ==
    IF i > Len(acc.assets) THEN acc
    ELSE LET item == acc.assets[i]
             tmp == get_current_ticker_price(outcomes[i])
             looked == Append(acc.lookups, Looked(item.ticker, outcomes[i]))
         IN  IF tmp.status = "panic"
             THEN [acc EXCEPT !.lookups = looked, !.panic = TRUE]
             ELSE IF tmp.status = "some"
             THEN refresh_loop(i + 1, outcomes,
                      [acc EXCEPT !.lookups = looked,
                                  !.assets[i].current_price_cents = tmp.val])
             ELSE refresh_loop(i + 1, outcomes,
                      [acc EXCEPT !.lookups = looked,
                                  !.printed = Append(@, MsgRefreshFailed(item.ticker))])

\* RefreshCmd that rebuilds every refreshed asset as a held one
RefreshCmdRehold ==
    /\ Awaiting
    /\ \E outcomes \in [1..Len(active_portfolio) -> LookupOutcomes] :
         LET r == refresh_loop(1, outcomes,
                      [assets |-> active_portfolio, printed |-> <<>>,
                       lookups |-> <<>>, panic |-> FALSE])
         IN  /\ active_portfolio' =
                    [i \in 1..Len(r.assets) |->
                        IF outcomes[i].k = "quote"
                        THEN [r.assets[i] EXCEPT !.sell_price_cents = None]
                        ELSE r.assets[i]]
             /\ out' = r.printed
             /\ pc' = IF r.panic THEN "panicked" ELSE pc
             /\ last' = [Ran("refresh") EXCEPT !.lookups = r.lookups]
    /\ ncmd' = ncmd + 1
    /\ UNCHANGED <<fs, dumped>>

RefreshCmd ==
    /\ Awaiting
    /\ \E outcomes \in [1..Len(active_portfolio) -> LookupOutcomes] :
         LET r == refresh_loop(1, outcomes,
                      [assets |-> active_portfolio, printed |-> <<>>,
                       lookups |-> <<>>, panic |-> FALSE])
         IN  /\ active_portfolio' = r.assets
             /\ out' = r.printed
             /\ pc' = IF r.panic THEN "panicked" ELSE pc
             /\ last' = [Ran("refresh") EXCEPT !.lookups = r.lookups]
    /\ ncmd' = ncmd + 1
    /\ UNCHANGED <<fs, dumped>>

\* BlankCmd without the "" arm: the line falls through to the `_` arm
BlankCmdUnknown ==
    /\ Awaiting
    /\ out' = << MsgUnknown >>
    /\ last' = Ran("")
    /\ ncmd' = ncmd + 1
    /\ UNCHANGED <<active_portfolio, fs, pc, dumped>>

BlankCmd ==
    /\ Awaiting
    /\ out' = <<>>
    /\ last' = Ran("")
    /\ ncmd' = ncmd + 1
    /\ UNCHANGED <<active_portfolio, fs, pc, dumped>>

UnknownCmd ==
    /\ Awaiting
    /\ \E input \in UnknownLines :
         last' = Ran(input)
    /\ out' = << MsgUnknown >>
    /\ ncmd' = ncmd + 1
    /\ UNCHANGED <<active_portfolio, fs, pc, dumped>>

(***************************************************************************)
(* The process from its start: an empty portfolio, at the prompt.          *)
(***************************************************************************)
NoCommand ==
    [input |-> "<start>", before |-> <<>>, symbol |-> "",
     buy_raw |-> <<>>, sell_raw |-> <<>>, qty_raw |-> <<>>,
     lookups |-> <<>>, filename |-> ""]

AtPrompt ==
    /\ pc = "awaiting"
    /\ out = <<>>
    /\ last = NoCommand
    /\ dumped = [f \in FileNames |-> None]
    /\ ncmd = 0

Init ==
    /\ active_portfolio = <<>>
    /\ fs = [f \in FileNames |-> IF f = "dir" THEN Directory ELSE NoFile]
    /\ AtPrompt

Next ==
    \/ PromptEof
    \/ AssetsCmd
    \/ SummaryCmd
    \/ NewCmd
    \/ HelpCmd
    \/ LoadCmd
    \/ DumpCmd
    \/ ExitCmd
    \/ RefreshCmd
    \/ BlankCmd
    \/ UnknownCmd

Spec == Init /\ [][Next]_vars

(***************************************************************************)
(* Persistence on its own: load and dump from any portfolio, with a file   *)
(* ext.json that some other program wrote.                                 *)
(***************************************************************************)
SeqsUpTo(S, n) == UNION {[1..k -> S] : k \in 0..n}

PersistAssets ==
    { Asset("A", 100, 123, None, 2),
      Asset("A", 100, 50, Some(4000), 2),
      Asset("B", 7, 9, None, 1) }

\* {"note": [1, {"x": null}],
\*  "assets": [{"quantity": 3, "sell_price_cents": 4000, "ticker": "Z",
\*              "current_price_cents": 7, "buy_price_cents": 5},
\*             {"ticker": "Y", "buy_price_cents": 1, "current_price_cents": 2,
\*              "quantity": 4}]}
ExtReordered ==
    << Punct("{"), Str("note"), Punct(":"),
         Punct("["), Num(1), Punct(","),
           Punct("{"), Str("x"), Punct(":"), Punct("null"), Punct("}"), Punct("]"),
       Punct(","), Str("assets"), Punct(":"), Punct("["),
         Punct("{"), Str("quantity"), Punct(":"), Num(3), Punct(","),
           Str("sell_price_cents"), Punct(":"), Num(4000), Punct(","),
           Str("ticker"), Punct(":"), Str("Z"), Punct(","),
           Str("current_price_cents"), Punct(":"), Num(7), Punct(","),
           Str("buy_price_cents"), Punct(":"), Num(5), Punct("}"),
         Punct(","),
         Punct("{"), Str("ticker"), Punct(":"), Str("Y"), Punct(","),
           Str("buy_price_cents"), Punct(":"), Num(1), Punct(","),
           Str("current_price_cents"), Punct(":"), Num(2), Punct(","),
           Str("quantity"), Punct(":"), Num(4), Punct("}"),
       Punct("]"), Punct("}") >>

\* [[["Z", 5, 7, null, 3]]]
ExtArrayForm ==
    << Punct("["), Punct("["),
         Punct("["), Str("Z"), Punct(","), Num(5), Punct(","), Num(7), Punct(","),
           Punct("null"), Punct(","), Num(3), Punct("]"),
       Punct("]"), Punct("]") >>

\* [[["", 5, 7, null, 0]]]
ExtNothingHeld ==
    << Punct("["), Punct("["),
         Punct("["), Str(""), Punct(","), Num(5), Punct(","), Num(7), Punct(","),
           Punct("null"), Punct(","), Num(0), Punct("]"),
       Punct("]"), Punct("]") >>

\* {"assets": [{"ticker": "Z", "buy_price_cents": 5
ExtTruncated ==
    << Punct("{"), Str("assets"), Punct(":"), Punct("["),
         Punct("{"), Str("ticker"), Punct(":"), Str("Z"), Punct(","),
           Str("buy_price_cents"), Punct(":"), Num(5) >>

\* one asset object around the given value of buy_price_cents and the given
\* tokens of the quantity member
ExtAsset(buy, quantity) ==
    << Punct("{"), Str("assets"), Punct(":"), Punct("["),
         Punct("{"), Str("ticker"), Punct(":"), Str("Z"), Punct(","),
           Str("buy_price_cents"), Punct(":"), buy, Punct(","),
           Str("current_price_cents"), Punct(":"), Num(7), Punct(","),
           Str("sell_price_cents"), Punct(":"), Punct("null") >>
    \o quantity
    \o << Punct("}"), Punct("]"), Punct("}") >>

QuantityMember(tok) == << Punct(","), Str("quantity"), Punct(":"), tok >>

\* "quantity": "3"
ExtWrongType == ExtAsset(Num(5), QuantityMember(Str("3")))
\* "buy_price_cents": -5
ExtNegative == ExtAsset(Num(-5), QuantityMember(Num(3)))
\* no quantity member
ExtNoQuantity == ExtAsset(Num(5), <<>>)
\* "quantity": 3, "quantity": 3
ExtTwice == ExtAsset(Num(5), QuantityMember(Num(3)) \o QuantityMember(Num(3)))
\* a portfolio and then a stray ]
ExtTrailing == ExtAsset(Num(5), QuantityMember(Num(3))) \o << Punct("]") >>
\* {"holdings": []}
ExtNoAssets ==
    << Punct("{"), Str("holdings"), Punct(":"), Punct("["), Punct("]"), Punct("}") >>

MalformedTexts ==
    { <<>>, ExtTruncated, ExtWrongType, ExtNegative, ExtNoQuantity, ExtTwice,
      ExtTrailing, ExtNoAssets }

WellFormedTexts == { ExtReordered, ExtArrayForm, ExtNothingHeld }

ExternalFiles ==
    {BinaryFile} \cup {TextFile(t) : t \in MalformedTexts \cup WellFormedTexts}

InitPersist ==
    /\ active_portfolio \in SeqsUpTo(PersistAssets, MaxInitAssets)
    /\ \E ext \in ExternalFiles :
         fs = [f \in FileNames |->
                  IF f = "dir" THEN Directory ELSE IF f = "ext.json" THEN ext ELSE NoFile]
    /\ AtPrompt

NextPersist ==
    \/ LoadCmd
    \/ DumpCmd

SpecPersist == InitPersist /\ [][NextPersist]_vars

(***************************************************************************)
(* The summary on its own: print_summary over portfolios whose prices and  *)
(* quantities reach the upper half of u32.                                 *)
(***************************************************************************)
SummaryAssets ==
    { Asset("A", b, c, None, q) :
        b \in {100, 65536, 2147483647}, c \in {50, 123, 65536}, q \in {1, 2, 65536} }
    \cup { Asset("S", 100, 65536, Some(4000), 65536), Asset("S", 1, 1, Some(0), 1) }

InitSummary ==
    /\ active_portfolio \in SeqsUpTo(SummaryAssets, MaxInitAssets)
    /\ fs = [f \in FileNames |-> IF f = "dir" THEN Directory ELSE NoFile]
    /\ AtPrompt

NextSummary == SummaryCmd

SpecSummary == InitSummary /\ [][NextSummary]_vars

(***************************************************************************)
(* Properties.  `last` names the command that led to the state and holds   *)
(* the portfolio before it, so a property of a command is a property of    *)
(* the states it leads to.                                                 *)
(***************************************************************************)

\* C1: no error aborts the process: after any command, whatever the inputs,
\* the process is back at the prompt, or it has ended through exit or through
\* the end of the input.
NoErrorAbortsTheProcess == pc \in {"awaiting", "exited", "eof"}

\* a file load cannot read, or whose text is not a portfolio
Unloadable(file) == file.kind # "file" \/ file.data \in MalformedTexts

\* C2: when load names a file that cannot be read or whose content is not a
\* portfolio, the portfolio is what it was before the command, the error
\* message is printed and the loop is back at the prompt.
FailedLoadLeavesPortfolio ==
    (last.input = "load" /\ last.filename # "" /\ Unloadable(fs[last.filename]))
        => /\ active_portfolio = last.before
           /\ out = << MsgNotLoaded >>
           /\ pc = "awaiting"

\* C2 happens: a file with a quantity of the wrong type is refused while the
\* portfolio holds two assets
FailedLoadSeen ==
    /\ last.input = "load"
    /\ last.filename = "ext.json"
    /\ fs["ext.json"] = TextFile(ExtWrongType)
    /\ Len(last.before) = 2
    /\ active_portfolio = last.before
    /\ out = << MsgNotLoaded >>

\* C3: a successful load of a file that a successful dump wrote yields the
\* portfolio that was dumped: the same assets, field for field, in the same
\* order.
DumpThenLoadRestores ==
    (last.input = "load" /\ last.filename # "" /\ out = <<>>
        /\ IsSome(dumped[last.filename]))
        => active_portfolio = Unwrap(dumped[last.filename])

\* C3 happens: a dump of a held and a sold asset of one ticker is loaded back
\* over a different portfolio
DumpThenLoadSeen ==
    /\ last.input = "load"
    /\ last.filename = "p.json"
    /\ out = <<>>
    /\ IsSome(dumped["p.json"])
    /\ Len(active_portfolio) = 2
    /\ active_portfolio[1].ticker = active_portfolio[2].ticker
    /\ is_asset_held(active_portfolio[1])
    /\ is_asset_sold(active_portfolio[2])
    /\ last.before # active_portfolio

\* the assets a hand-written file states
Stated(text) ==
    IF text = ExtReordered
    THEN << Asset("Z", 5, 7, Some(4000), 3), Asset("Y", 1, 2, None, 4) >>
    ELSE IF text = ExtArrayForm THEN << Asset("Z", 5, 7, None, 3) >>
    ELSE IF text = ExtNothingHeld THEN << Asset("", 5, 7, None, 0) >>
    ELSE << "not a portfolio" >>

FileAssets(f) == IF IsSome(dumped[f]) THEN Unwrap(dumped[f]) ELSE Stated(fs[f].data)

\* C9: after a successful load the portfolio is exactly the sequence of
\* assets of the file, in the order of the file; nothing of the portfolio
\* before the load remains.
SuccessfulLoadReplaces ==
    (last.input = "load" /\ last.filename # "" /\ out = <<>>)
        => active_portfolio = FileAssets(last.filename)

\* C9 happens: a hand-written file of two assets replaces a portfolio of two
\* other assets
SuccessfulLoadSeen ==
    /\ last.input = "load"
    /\ last.filename = "ext.json"
    /\ fs["ext.json"] = TextFile(ExtReordered)
    /\ out = <<>>
    /\ Len(last.before) = 2
    /\ last.before[1].ticker = "A"
    /\ active_portfolio[1].ticker = "Z"

\* the error lines a refresh owes: one for every lookup that brought no price,
\* naming the ticker, in the order of the lookups
RECURSIVE FailureLines(_, _)
FailureLines(lookups, i) ==
    IF i > Len(lookups) THEN <<>>
    ELSE (IF lookups[i].outcome.k = "quote" THEN <<>>
          ELSE << MsgRefreshFailed(lookups[i].ticker) >>)
         \o FailureLines(lookups, i + 1)

\* C4: a refresh looks up every asset whatever the earlier lookups brought:
\* an asset whose lookup succeeds gets the returned price, an asset whose
\* lookup fails keeps its price, and there is exactly one error line,
\* naming the ticker, for every asset whose lookup failed.
RefreshCoversEveryAsset ==
    last.input = "refresh"
        => /\ pc = "awaiting"
           /\ Len(last.lookups) = Len(last.before)
           /\ Len(active_portfolio) = Len(last.before)
           /\ \A i \in 1..Len(last.before) :
                /\ last.lookups[i].ticker = last.before[i].ticker
                /\ active_portfolio[i].current_price_cents =
                       IF last.lookups[i].outcome.k = "quote"
                       THEN CentsOf(last.lookups[i].outcome.millis)
                       ELSE last.before[i].current_price_cents
           /\ out = FailureLines(last.lookups, 1)

\* a new whose four inputs were read and whose lookup brought a quote
NewWithQuote ==
    /\ last.input = "new"
    /\ Len(last.lookups) = 1
    /\ last.lookups[1].outcome.k = "quote"

\* C5: in new, the sell-price input "held" gives an asset without a sell
\* price, "4000" gives the sell price 4000, and any other text is refused:
\* an error is reported, no asset is appended and the loop goes on.
SellPriceInputRule ==
    NewWithQuote
        => IF last.sell_raw = Held
           THEN /\ pc = "awaiting"
                /\ Len(active_portfolio) = Len(last.before) + 1
                /\ active_portfolio[Len(active_portfolio)].sell_price_cents = None
           ELSE IF last.sell_raw = <<"4", "0", "0", "0">>
           THEN /\ pc = "awaiting"
                /\ Len(active_portfolio) = Len(last.before) + 1
                /\ active_portfolio[Len(active_portfolio)].sell_price_cents = Some(4000)
           ELSE /\ pc = "awaiting"
                /\ active_portfolio = last.before
                /\ out # <<>>

\* C6: when the lookup of new fails, the inputs are dropped: the portfolio is
\* what it was, the error message is printed and the loop goes on.
FailedLookupDropsNewAsset ==
    (last.input = "new" /\ Len(last.lookups) = 1 /\ last.lookups[1].outcome.k # "quote")
        => /\ active_portfolio = last.before
           /\ out = << MsgFetchFailed >>
           /\ pc = "awaiting"

\* a u32 total among 64-bit numbers
Wide(v) == << v.lo, v.hi, 0, 0 >>

AddWide(x, y) == Carry4(x[1] + y[1], x[2] + y[2], x[3] + y[3], x[4] + y[4])

HeldProduct(asset, field) ==
    IF is_asset_sold(asset) THEN << 0, 0, 0, 0 >>
    ELSE MulWide(ToU32(asset[field]), ToU32(asset.quantity))

\* the sum of field x quantity over the held assets, without a width
RECURSIVE ExactTotal(_, _, _)
ExactTotal(assets, i, field) ==
    IF i > Len(assets) THEN << 0, 0, 0, 0 >>
    ELSE AddWide(HeldProduct(assets[i], field), ExactTotal(assets, i + 1, field))

\* C7: the totals that summary prints are the exact sums over the held
\* assets, net buy price of buy price x quantity and market value of current
\* price x quantity, for every portfolio of u32 fields.
SummaryTotalsExact ==
    (last.input = "summary" /\ pc = "awaiting")
        => /\ Wide(out[1].cells[1]) = ExactTotal(last.before, 1, "buy_price_cents")
           /\ Wide(out[1].cells[2]) = ExactTotal(last.before, 1, "current_price_cents")

LessEq(a, b) == a.hi < b.hi \/ (a.hi = b.hi /\ a.lo <= b.lo)

\* a + b in three limbs
Plus(a, b) ==
    << (a.lo + b.lo) % Limb,
       (a.hi + b.hi + (a.lo + b.lo) \div Limb) % Limb,
       (a.hi + b.hi + (a.lo + b.lo) \div Limb) \div Limb >>

\* C8: the gain or loss that summary prints is net buy price - market value
\* in u32: the exact difference when market value <= net buy price, and the
\* difference plus 2^32, not the signed difference, when market value is
\* the larger.
UnsignedGainLoss ==
    (last.input = "summary" /\ pc = "awaiting")
        => IF LessEq(out[1].cells[2], out[1].cells[1])
           THEN Plus(out[1].cells[3], out[1].cells[2])
                    = << out[1].cells[1].lo, out[1].cells[1].hi, 0 >>
           ELSE Plus(out[1].cells[3], out[1].cells[2])
                    = << out[1].cells[1].lo, out[1].cells[1].hi, 1 >>

\* C8 happens: a summary is printed for a portfolio whose market value is
\* above its net buy price
UnderflowSeen ==
    /\ last.input = "summary"
    /\ pc = "awaiting"
    /\ Len(last.before) = 2
    /\ ~LessEq(out[1].cells[2], out[1].cells[1])
    /\ out[1].cells[3].hi = 65535

\* the number a text of the enumerated inputs spells
Entered(text) ==
    IF text = <<"1", "0", "0">> THEN 100
    ELSE IF text = <<"2">> THEN 2
    ELSE IF text = <<"4", "0", "0", "0">> THEN 4000
    ELSE -1

\* a new that ended with an asset pushed
NewSucceeded ==
    /\ last.input = "new"
    /\ pc = "awaiting"
    /\ out = <<>>

\* C10: a successful new appends one asset at the end, with the entered
\* ticker, buy price and quantity and the price the lookup returned; the
\* assets already there keep their places and fields, also one of the same
\* ticker.
NewAppendsOneAsset ==
    NewSucceeded
        => /\ Len(active_portfolio) = Len(last.before) + 1
           /\ SubSeq(active_portfolio, 1, Len(last.before)) = last.before
           /\ active_portfolio[Len(active_portfolio)].ticker = last.symbol
           /\ active_portfolio[Len(active_portfolio)].buy_price_cents = Entered(last.buy_raw)
           /\ active_portfolio[Len(active_portfolio)].quantity = Entered(last.qty_raw)
           /\ active_portfolio[Len(active_portfolio)].current_price_cents =
                  get_current_ticker_price(last.lookups[1].outcome).val

\* C10 happens: an asset is appended to a portfolio that holds one of the
\* same ticker
NewAppendSeen ==
    /\ NewSucceeded
    /\ Len(last.before) = 1
    /\ Len(active_portfolio) = 2
    /\ last.before[1].ticker = last.symbol
    /\ active_portfolio[1] = last.before[1]
    /\ active_portfolio[2].current_price_cents # active_portfolio[1].current_price_cents

\* an asset without its current price: the fields refresh must not touch
Untouched(asset) ==
    << asset.ticker, asset.buy_price_cents, asset.sell_price_cents, asset.quantity >>

\* C11: after refresh the portfolio has the same number of assets in the same
\* order, and every asset has the ticker, buy price, sell price and quantity
\* it had before, whatever the lookups returned; a sold asset stays sold.
RefreshTouchesOnlyCurrentPrice ==
    last.input = "refresh"
        => /\ Len(active_portfolio) = Len(last.before)
           /\ \A i \in 1..Len(last.before) :
                /\ Untouched(active_portfolio[i]) = Untouched(last.before[i])
                /\ is_asset_sold(last.before[i]) = is_asset_sold(active_portfolio[i])

\* C11 happens: a refresh of two assets, one lookup failing and one giving a
\* sold asset a new current price
RefreshFrameSeen ==
    /\ last.input = "refresh"
    /\ pc = "awaiting"
    /\ Len(last.before) = 2
    /\ \E i, j \in 1..2 :
         /\ i # j
         /\ last.lookups[j].outcome.k = "err"
         /\ active_portfolio[j] = last.before[j]
         /\ is_asset_sold(last.before[i])
         /\ active_portfolio[i].current_price_cents # last.before[i].current_price_cents

\* the lines the match of main has an arm for, the "" arm aside
KnownCommands ==
    {"assets", "summary", "new", "help", "load", "dump", "exit", "refresh"}

\* C12: a line that is no known command leaves the portfolio as it was and
\* prints the unknown-command message; an empty line leaves the portfolio as
\* it was and prints nothing; after either the loop awaits the next command.
UnknownAndBlankLines ==
    /\ (last.input \notin KnownCommands \cup {"", "<start>", "<eof>"})
           => /\ active_portfolio = last.before
              /\ Len(out) = 1
              /\ out[1].msg = "Unknown command. Enter 'help' for a list of valid commands"
              /\ pc = "awaiting"
    /\ last.input = ""
           => /\ active_portfolio = last.before
              /\ out = <<>>
              /\ pc = "awaiting"

\* C12 happens: a command in the wrong case is entered with an asset in the
\* portfolio and is answered with the message
UnknownLineSeen ==
    /\ last.input = "Assets"
    /\ out = << MsgUnknown >>
    /\ Len(active_portfolio) = 1
    /\ active_portfolio = last.before
    /\ pc = "awaiting"

\* C13: every asset of the portfolio has a quantity of at least 1 and a
\* ticker that is not empty.
AssetsAreWellFormed ==
    \A i \in 1..Len(active_portfolio) :
        /\ active_portfolio[i].quantity >= 1
        /\ active_portfolio[i].ticker # ""

\* C14: a load of the file whose one asset has no quantity member succeeds,
\* and the asset is in the portfolio with quantity 1.
MissingQuantityLoadsAsOne ==
    (last.input = "load" /\ last.filename # "" /\ fs[last.filename] = TextFile(ExtNoQuantity))
        => /\ out = <<>>
           /\ active_portfolio = << Asset("Z", 5, 7, None, 1) >>

\* C15: every lookup that brought no price (the request failed, or the
\* response held no quote) came back as the failure value and the process
\* went on: new left the portfolio as it was, refresh left the price of that
\* asset as it was, an error line was printed and the loop awaits a command.
LookupFailureIsAValue ==
    \A i \in 1..Len(last.lookups) :
        last.lookups[i].outcome.k # "quote"
            => /\ get_current_ticker_price(last.lookups[i].outcome).status = "none"
               /\ pc = "awaiting"
               /\ last.input = "new"
                      => active_portfolio = last.before /\ out = << MsgFetchFailed >>
               /\ last.input = "refresh"
                      => /\ active_portfolio[i].current_price_cents =
                                last.before[i].current_price_cents
                         /\ \E j \in 1..Len(out) :
                                out[j] = MsgRefreshFailed(last.lookups[i].ticker)

\* C16: the lookups of a command are: for new exactly one, of the entered
\* ticker; for refresh exactly one for each asset, in the order of the
\* portfolio, none when it is empty; for every other line none.  Only load
\* and dump name a file.
LookupsPerCommand ==
    /\ last.input = "new"
           => /\ Len(last.lookups) = 1
              /\ last.lookups[1].ticker = last.symbol
    /\ last.input = "refresh"
           => /\ Len(last.lookups) = Len(last.before)
              /\ \A i \in 1..Len(last.before) :
                     last.lookups[i].ticker = last.before[i].ticker
    /\ last.input \notin {"new", "refresh"} => last.lookups = <<>>
    /\ last.input \notin {"load", "dump"} => last.filename = ""

\* C17: the portfolio is empty at the start; assets, summary, help and dump
\* leave it as it was, dump also when the write fails; and whenever it
\* differs from what it was before the last command, that command was a new
\* that appended one asset, a refresh, or a load that succeeded.
PortfolioChangesOnlyByNewRefreshLoad ==
    /\ last.input = "<start>" => active_portfolio = <<>>
    /\ last.input \in {"assets", "summary", "help", "dump"}
           => active_portfolio = last.before
    /\ active_portfolio # last.before
           => \/ /\ last.input = "new"
                 /\ Len(active_portfolio) = Len(last.before) + 1
                 /\ SubSeq(active_portfolio, 1, Len(last.before)) = last.before
              \/ /\ last.input = "refresh"
                 /\ Len(active_portfolio) = Len(last.before)
              \/ /\ last.input = "load"
                 /\ last.filename # ""
                 /\ out = <<>>

\* C17 happens: a dump into a directory fails with two assets in the portfolio
FailedDumpSeen ==
    /\ last.input = "dump"
    /\ out = << MsgNotDumped >>
    /\ Len(active_portfolio) = 2
    /\ active_portfolio = last.before

\* the price the percent change of an asset ends at
EndPrice(asset) ==
    IF asset.sell_price_cents = <<>> THEN asset.current_price_cents
    ELSE asset.sell_price_cents[1]

\* C18: the assets command prints one row for every asset and returns to the
\* prompt.  The row of a held asset shows its current price and no sell
\* price, and its percent change runs from the buy price to the current
\* price; the row of a sold asset shows its sell price and no current price,
\* and its percent change runs from the buy price to the sell price.
AssetsRendersEveryAsset ==
    last.input = "assets"
        => /\ pc = "awaiting"
           /\ Len(out) = 1
           /\ Len(out[1].cells) = Len(active_portfolio)
           /\ \A i \in 1..Len(active_portfolio) :
                LET asset == active_portfolio[i]
                    row == out[1].cells[i]
                IN  /\ row.ticker = asset.ticker
                    /\ row.buy_price = asset.buy_price_cents
                    /\ row.quantity = asset.quantity
                    /\ row.percent_change.num =
                           (EndPrice(asset) - asset.buy_price_cents) * 100
                    /\ row.percent_change.den = asset.buy_price_cents
                    /\ IF asset.sell_price_cents = <<>>
                       THEN /\ row.current_price = << asset.current_price_cents >>
                            /\ row.sell_price = <<>>
                       ELSE /\ row.current_price = <<>>
                            /\ row.sell_price = asset.sell_price_cents

\* C18 happens: a held and a sold asset are rendered in one table
AssetsRenderedSeen ==
    /\ last.input = "assets"
    /\ Len(out) = 1
    /\ Len(out[1].cells) = 2
    /\ \E i, j \in 1..2 :
         /\ active_portfolio[i].sell_price_cents = <<>>
         /\ out[1].cells[i].sell_price = <<>>
         /\ active_portfolio[j].sell_price_cents # <<>>
         /\ out[1].cells[j].current_price = <<>>
         /\ active_portfolio[j].current_price_cents # active_portfolio[j].sell_price_cents[1]

\* round(price * 100) of a quote given in thousandths, halves rounded up
RoundedCents(millis) == (millis + 5) \div 10

\* C19: the price new stores in the asset it appends, and the price refresh
\* stores in an asset whose lookup brought a quote, is the quoted price in
\* cents rounded to the nearest cent.
StoredPriceIsRounded ==
    /\ (last.input = "new" /\ Len(active_portfolio) = Len(last.before) + 1)
           => active_portfolio[Len(active_portfolio)].current_price_cents =
                  RoundedCents(last.lookups[1].outcome.millis)
    /\ last.input = "refresh"
           => \A i \in 1..Len(last.lookups) :
                  last.lookups[i].outcome.k = "quote"
                      => active_portfolio[i].current_price_cents =
                             RoundedCents(last.lookups[i].outcome.millis)

====
